---- MODULE Spec2Model ----
(***************************************************************************)
(* Model of gohistogram.WeightedHistogram (src/weightedhistogram.go).      *)
(*                                                                         *)
(* float64 quantities are modelled as exact rationals <<num, den>> in      *)
(* lowest terms with den > 0.  All samples of the bounded model are small  *)
(* integers and alpha is 1 or 1/2, so the counts are dyadic and exactly    *)
(* representable in float64; bin values produced by the weighted average   *)
(* are modelled without the final rounding of the float64 division.        *)
(***************************************************************************)
EXTENDS Integers, Sequences, FiniteSets, TLC

(* ---------------------------------------------------------------------- *)
(* Bounds of the model                                                     *)
(* ---------------------------------------------------------------------- *)
MaxAdds == 5
MaxBins == 3

Values == {0, 1, 3, 4}

(* ---------------------------------------------------------------------- *)
(* Exact rational arithmetic standing for float64                          *)
(* ---------------------------------------------------------------------- *)
Abs(x) == IF x < 0 THEN -x ELSE x

RECURSIVE GCD(_, _)
GCD(a, b) == IF b = 0 THEN a ELSE GCD(b, a % b)

Norm(n, d) ==
  LET s == IF d < 0 THEN -1 ELSE 1
      g == GCD(Abs(n), Abs(d))
  IN  <<(s * n) \div g, (s * d) \div g>>

RInt(n) == <<n, 1>>
RAdd(x, y) == Norm(x[1] * y[2] + y[1] * x[2], x[2] * y[2])
RSub(x, y) == Norm(x[1] * y[2] - y[1] * x[2], x[2] * y[2])
RMul(x, y) == Norm(x[1] * y[1], x[2] * y[2])
RDiv(x, y) == Norm(x[1] * y[2], x[2] * y[1])
RLt(x, y) == x[1] * y[2] < y[1] * x[2]
RLe(x, y) == x[1] * y[2] <= y[1] * x[2]

\* int64(f) for f >= 0: truncation toward zero
Trunc(x) == x[1] \div x[2]

Alphas == {<<1, 2>>, <<1, 1>>}
Quantiles == {<<0, 1>>, <<1, 4>>, <<1, 2>>, <<3, 4>>, <<1, 1>>}

(* ---------------------------------------------------------------------- *)
(* State                                                                   *)
(* ---------------------------------------------------------------------- *)
VARIABLES bins, maxbins, total, alpha, samples, lastAdd, ret

vars == <<bins, maxbins, total, alpha, samples, lastAdd, ret>>

bin(v, c) == [value |-> v, count |-> c]

NoRet == [op |-> "none", arg |-> RInt(0), val |-> RInt(0)]
NoAdd == [inserted |-> <<>>, touched |-> 0, scaled |-> <<>>]

\* NewWeightedHistogram(n, alpha)
Init ==
  /\ bins = <<>>
  /\ maxbins \in 1..MaxBins
  /\ total = 0
  /\ alpha \in Alphas
  /\ samples = <<>>
  /\ lastAdd = NoAdd
  /\ ret = NoRet

(* ---------------------------------------------------------------------- *)
(* Decay                                                                   *)
(* ---------------------------------------------------------------------- *)
ewma_swapped(existingVal, newVal, a) ==
  RAdd(RMul(newVal, a), RMul(existingVal, RSub(RInt(1), a)))

ewma(existingVal, newVal, a) ==
  RAdd(RMul(newVal, RSub(RInt(1), a)), RMul(existingVal, a))

scaleDown(b, except, a) ==
  [i \in 1..Len(b) |->
     IF i # except THEN [b[i] EXCEPT !.count = ewma(b[i].count, RInt(0), a)]
     ELSE b[i]]

(* ---------------------------------------------------------------------- *)
(* Add: the scan of the bins                                               *)
(* ---------------------------------------------------------------------- *)
insertAfter(b, i, newbin) ==
  SubSeq(b, 1, i) \o <<newbin>> \o SubSeq(b, i + 1, Len(b))

\* head := bins[0:i]; head = append(head, newbin); bins = append(head, bins[i:]...)
insertAt(b, i, newbin) ==
  SubSeq(b, 1, i - 1) \o <<newbin>> \o SubSeq(b, i, Len(b))

\* The loop of Add from (1-based) index i on.  The result is the bin
\* sequence after the branch taken, whether scaleDown was deferred and with
\* which index, and the index of the bin that was incremented or created.
RECURSIVE AddScan(_, _, _)
AddScan(b, n, i) ==
  IF i > Len(b)
  THEN [bins |-> Append(b, bin(n, RInt(1))), deferred |-> FALSE,
        except |-> 0, touched |-> Len(b) + 1]
  ELSE IF b[i].value = n
  THEN [bins |-> [b EXCEPT ![i].count = RAdd(@, RInt(1))], deferred |-> TRUE,
        except |-> i, touched |-> i]
  ELSE IF RLt(n, b[i].value)
  THEN [bins |-> insertAt(b, i, bin(n, RInt(1))), deferred |-> TRUE,
        except |-> i, touched |-> i]
  ELSE AddScan(b, n, i + 1)

(* ---------------------------------------------------------------------- *)
(* trim                                                                    *)
(* ---------------------------------------------------------------------- *)
RECURSIVE SumCounts(_, _)
SumCounts(b, i) ==
  IF i > Len(b) THEN RInt(0) ELSE RAdd(b[i].count, SumCounts(b, i + 1))

trimTotal_ceil(b) ==
  LET s == SumCounts(b, 1)
  IN  IF s[2] = 1 THEN s[1] ELSE Trunc(s) + 1

\* total := 0.0; for i: total += bins[i].count; h.total = int64(total)
trimTotal(b) == Trunc(SumCounts(b, 1))

\* minDelta := 1e99.  Every gap of the bounded model is far below it; the
\* model uses a stand-in that is above every reachable gap.
minDeltaInit == RInt(1000000)

deltaLessOrEqual(delta, minDelta) == RLe(delta, minDelta)

\* delta < minDelta
deltaLess(delta, minDelta) == RLt(delta, minDelta)

\* The inner scan of trim from (1-based) index i >= 2 on; returns the
\* 1-based minDeltaIndex (0 when no pair was found).
RECURSIVE findMinDelta(_, _, _, _)
findMinDelta(b, i, minDelta, minDeltaIndex) ==
  IF i > Len(b) THEN minDeltaIndex
  ELSE LET delta == RSub(b[i].value, b[i - 1].value)
       IN  IF deltaLess(delta, minDelta)
           THEN findMinDelta(b, i + 1, delta, i)
           ELSE findMinDelta(b, i + 1, minDelta, minDeltaIndex)

mergedBin_midpoint(b1, b2) ==
  bin(RDiv(RAdd(b1.value, b2.value), RInt(2)), RAdd(b1.count, b2.count))

mergedBin_undivided(b1, b2) ==
  LET totalCount == RAdd(b1.count, b2.count)
  IN  bin(IF RLe(totalCount, RInt(1))
          THEN RDiv(RAdd(b1.value, b2.value), RInt(2))
          ELSE RAdd(RMul(b1.value, b1.count), RMul(b2.value, b2.count)),
          totalCount)

mergedBin_firstCount(b1, b2) ==
  LET totalCount == RAdd(b1.count, b2.count)
  IN  bin(IF RLe(totalCount, RInt(1))
          THEN RDiv(RAdd(b1.value, b2.value), RInt(2))
          ELSE RDiv(RAdd(RMul(b1.value, b1.count), RMul(b2.value, b2.count)),
                    totalCount),
          b1.count)

mergedBin(b1, b2) ==
  LET totalCount == RAdd(b1.count, b2.count)
  IN  bin(IF RLe(totalCount, RInt(1))
          THEN RDiv(RAdd(b1.value, b2.value), RInt(2))
          ELSE RDiv(RAdd(RMul(b1.value, b1.count), RMul(b2.value, b2.count)),
                    totalCount),
          totalCount)

\* One iteration of the body of the loop of trim
mergeStep(b) ==
  LET m == findMinDelta(b, 2, minDeltaInit, 0)
  IN  SubSeq(b, 1, m - 2) \o <<mergedBin(b[m - 1], b[m])>>
        \o SubSeq(b, m + 1, Len(b))

overBudget_offByOne(b, mb) == Len(b) > mb + 1

\* len(h.bins) > h.maxbins
overBudget(b, mb) == Len(b) > mb

RECURSIVE trimBins(_, _)
trimBins(b, mb) == IF overBudget(b, mb) THEN trimBins(mergeStep(b), mb) ELSE b

(* ---------------------------------------------------------------------- *)
(* Queries                                                                 *)
(* ---------------------------------------------------------------------- *)
\* The scan of Quantile: the index of the bin whose value is returned, 0
\* when the loop ends without returning.
RECURSIVE QuantileScan(_, _, _)
QuantileScan(b, count, i) ==
  IF i > Len(b) THEN 0
  ELSE LET c == RSub(count, b[i].count)
       IN  IF RLe(c, RInt(0)) THEN i ELSE QuantileScan(b, c, i + 1)

QuantileIndex(b, t, q) == QuantileScan(b, RMul(q, RInt(t)), 1)

Quantile_reversed(b, t, q) ==
  LET i == QuantileIndex(b, t, RSub(RInt(1), q))
  IN  IF i = 0 THEN RInt(-1) ELSE b[i].value

Quantile(b, t, q) ==
  LET i == QuantileIndex(b, t, q)
  IN  IF i = 0 THEN RInt(-1) ELSE b[i].value

RECURSIVE SumValueCount(_, _)
SumValueCount(b, i) ==
  IF i > Len(b) THEN RInt(0)
  ELSE RAdd(RMul(b[i].value, b[i].count), SumValueCount(b, i + 1))

Mean(b, t) == IF t = 0 THEN RInt(0) ELSE RDiv(SumValueCount(b, 1), RInt(t))

Count(t) == t

BinsCount(b) == Len(b)

(* ---------------------------------------------------------------------- *)
(* Actions                                                                 *)
(* ---------------------------------------------------------------------- *)
\* Add(n): the scan, then the deferred scaleDown (if any), then the
\* deferred trim (total first, then the merges).
Add(n) ==
  /\ Len(samples) < MaxAdds
  /\ LET r == AddScan(bins, RInt(n), 1)
         scaled == IF r.deferred THEN scaleDown(r.bins, r.except, alpha)
                   ELSE r.bins
     IN  /\ total' = trimTotal(scaled)
         /\ bins' = trimBins(scaled, maxbins)
         /\ lastAdd' = [inserted |-> r.bins, touched |-> r.touched,
                        scaled |-> scaled]
  /\ samples' = Append(samples, n)
  /\ ret' = NoRet
  /\ UNCHANGED <<maxbins, alpha>>

QuantileCall(q) ==
  /\ ret' = [op |-> "Quantile", arg |-> q, val |-> Quantile(bins, total, q)]
  /\ UNCHANGED <<bins, maxbins, total, alpha, samples, lastAdd>>

MeanCall ==
  /\ ret' = [op |-> "Mean", arg |-> RInt(0), val |-> Mean(bins, total)]
  /\ UNCHANGED <<bins, maxbins, total, alpha, samples, lastAdd>>

CountCall ==
  /\ ret' = [op |-> "Count", arg |-> RInt(0), val |-> RInt(Count(total))]
  /\ UNCHANGED <<bins, maxbins, total, alpha, samples, lastAdd>>

BinsCountCall ==
  /\ ret' = [op |-> "BinsCount", arg |-> RInt(0), val |-> RInt(BinsCount(bins))]
  /\ UNCHANGED <<bins, maxbins, total, alpha, samples, lastAdd>>

Next ==
  \/ \E n \in Values : Add(n)
  \/ \E q \in Quantiles : QuantileCall(q)
  \/ MeanCall
  \/ CountCall
  \/ BinsCountCall

Spec == Init /\ [][Next]_vars

(* ---------------------------------------------------------------------- *)
(* Auxiliary definitions for the properties                                *)
(* ---------------------------------------------------------------------- *)
RECURSIVE SumSamples(_)
SumSamples(s) == IF s = <<>> THEN 0 ELSE Head(s) + SumSamples(Tail(s))

SampleSet == {samples[i] : i \in 1..Len(samples)}
MinSample == CHOOSE m \in SampleSet : \A x \in SampleSet : m <= x
MaxSample == CHOOSE m \in SampleSet : \A x \in SampleSet : x <= m

Added == samples # <<>>

\* the last Add exceeded the budget, so trim merged
Merged == Len(lastAdd.scaled) > maxbins

Gap(p, i) == RSub(p[i].value, p[i - 1].value)

Q(q) == Quantile(bins, total, q)

(* ---------------------------------------------------------------------- *)
(* Properties                                                              *)
(* ---------------------------------------------------------------------- *)

\* C1: after every Add the number of bins is at most maxbins, and
\* BinsCount() reports a number that is at most maxbins.
C1_Capacity ==
  /\ Len(bins) <= maxbins
  /\ ret.op = "BinsCount" => RLe(ret.val, RInt(maxbins))

C1_Witness ==
  /\ Merged
  /\ Len(bins) = maxbins
  /\ ret.op = "BinsCount"

\* C2: after every Add the bin values are strictly increasing by index.
C2_Sorted ==
  \A i \in 1..(Len(bins) - 1) : RLt(bins[i].value, bins[i + 1].value)

C2_Witness ==
  /\ Merged
  /\ Len(bins) >= 3
  /\ lastAdd.touched < Len(lastAdd.inserted)

\* C3: with alpha = 1, after k calls of Add, Count() is k.
C3_MassConservation ==
  alpha = RInt(1) =>
    /\ Count(total) = Len(samples)
    /\ ret.op = "Count" => ret.val = RInt(Len(samples))

C3_Witness ==
  /\ alpha = RInt(1)
  /\ Len(samples) >= 3
  /\ Merged
  /\ Cardinality(SampleSet) < Len(samples)
  /\ ret.op = "Count"

\* C4: every Add, whichever branch it takes, multiplies the count of every
\* bin other than the touched one by alpha and leaves the touched bin's
\* count (freshly incremented, or 1) undecayed.
C4_DecayOnEveryAdd ==
  Added =>
    /\ Len(lastAdd.scaled) = Len(lastAdd.inserted)
    /\ \A i \in 1..Len(lastAdd.inserted) :
         lastAdd.scaled[i].count =
           IF i = lastAdd.touched THEN lastAdd.inserted[i].count
           ELSE RMul(lastAdd.inserted[i].count, alpha)

\* C5: after every Add, total is the sum of the counts of the current bins
\* (after decay and after the merges), truncated to an integer.
C5_TotalIsTruncatedSum ==
  total = Trunc(SumCounts(bins, 1))

C5_Witness ==
  /\ Merged
  /\ alpha # RInt(1)
  /\ SumCounts(bins, 1)[2] # 1
  /\ SumCounts(bins, 1) = SumCounts(lastAdd.scaled, 1)

C8_MeanExact ==
  (alpha = RInt(1) /\ Added) =>
    /\ SumValueCount(bins, 1) = RInt(SumSamples(samples))
    /\ Mean(bins, total) = RDiv(RInt(SumSamples(samples)), RInt(Len(samples)))
    /\ ret.op = "Mean" =>
         ret.val = RDiv(RInt(SumSamples(samples)), RInt(Len(samples)))

C8_Witness ==
  /\ alpha = RInt(1)
  /\ Merged
  /\ Len(samples) >= 3
  /\ \E i \in 1..Len(bins) : bins[i].value[2] # 1
  /\ ret.op = "Mean"

\* C9: a merge replaces exactly the adjacent pair with the smallest value
\* gap (lowest index among equal gaps) by one bin whose count is the sum of
\* the two counts and whose value is the midpoint when that sum is <= 1 and
\* the count-weighted average otherwise; the other bins are unchanged and
\* keep their order.  (From a state within the budget one Add exceeds it by
\* one bin, so the bins after Add are one merge away from the bins before
\* trim.)
C9_MergeStep ==
  LET p == lastAdd.scaled IN
  IF Len(p) > maxbins
  THEN \E i \in 2..Len(p) :
         /\ \A j \in 2..Len(p) : RLe(Gap(p, i), Gap(p, j))
         /\ \A j \in 2..(i - 1) : RLt(Gap(p, i), Gap(p, j))
         /\ Len(bins) = Len(p) - 1
         /\ \A k \in 1..(i - 2) : bins[k] = p[k]
         /\ \A k \in (i + 1)..Len(p) : bins[k - 1] = p[k]
         /\ bins[i - 1].count = RAdd(p[i - 1].count, p[i].count)
         /\ bins[i - 1].value =
              IF RLe(RAdd(p[i - 1].count, p[i].count), RInt(1))
              THEN RDiv(RAdd(p[i - 1].value, p[i].value), RInt(2))
              ELSE RDiv(RAdd(RMul(p[i - 1].value, p[i - 1].count),
                             RMul(p[i].value, p[i].count)),
                        RAdd(p[i - 1].count, p[i].count))
  ELSE bins = p

\* a merge with two equal minimal gaps whose merged pair has mass <= 1
C9_Witness ==
  LET p == lastAdd.scaled IN
  /\ Len(p) > maxbins
  /\ \E i, j \in 2..Len(p) :
       /\ i < j
       /\ Gap(p, i) = Gap(p, j)
       /\ \A k \in 2..Len(p) : RLe(Gap(p, i), Gap(p, k))
       /\ \A k \in 2..(i - 1) : RLt(Gap(p, i), Gap(p, k))
       /\ RLe(RAdd(p[i - 1].count, p[i].count), RInt(1))
       /\ bins[i - 1].value = RDiv(RAdd(p[i - 1].value, p[i].value), RInt(2))

====
